---------------------------- MODULE Spec2Model ----------------------------
(***************************************************************************)
(* A model of ShellScriptAnalyzer (src/misc/parse_script.py): the recursive *)
(* traversal of inclusion directives, the per-line classifier, the         *)
(* conditional-context tracker, the function registry, the argument        *)
(* inferencer, the call detector and the map renderer.                     *)
(*                                                                         *)
(* Script lines and paths are TLA+ strings; the regular expressions of the *)
(* source are values of a small backtracking matcher (M below) that keeps  *)
(* Python's priority order (greedy / lazy) and one capture group.          *)
(***************************************************************************)
EXTENDS Integers, Sequences, FiniteSets, TLC

(***************************************************************************)
(* Characters and strings                                                  *)
(***************************************************************************)
None == ""

Min(a, b) == IF a <= b THEN a ELSE b

Ch(s, i) == SubSeq(s, i, i)

LowerCase == {"a","b","c","d","e","f","g","h","i","j","k","l","m",
              "n","o","p","q","r","s","t","u","v","w","x","y","z"}

UpperCase == {"A","B","C","D","E","F","G","H","I","J","K","L","M",
              "N","O","P","Q","R","S","T","U","V","W","X","Y","Z"}

Digit == {"0","1","2","3","4","5","6","7","8","9"}

\* \w
WordChar == LowerCase \cup UpperCase \cup Digit \cup {"_"}

\* \s (the form feed is left out: it stands for the backquote below)
Space == {" ", "\t", "\n", "\r"}

\* The backquote cannot be written in a TLA+ string; this character stands for
\* it, and no line of the corpus holds it.
BackQuote == "\f"

ToLower ==
    [c \in UpperCase |->
        CASE c = "A" -> "a" [] c = "B" -> "b" [] c = "C" -> "c" [] c = "D" -> "d"
          [] c = "E" -> "e" [] c = "F" -> "f" [] c = "G" -> "g" [] c = "H" -> "h"
          [] c = "I" -> "i" [] c = "J" -> "j" [] c = "K" -> "k" [] c = "L" -> "l"
          [] c = "M" -> "m" [] c = "N" -> "n" [] c = "O" -> "o" [] c = "P" -> "p"
          [] c = "Q" -> "q" [] c = "R" -> "r" [] c = "S" -> "s" [] c = "T" -> "t"
          [] c = "U" -> "u" [] c = "V" -> "v" [] c = "W" -> "w" [] c = "X" -> "x"
          [] c = "Y" -> "y" [] c = "Z" -> "z"]

RECURSIVE LowerStr(_)
LowerStr(s) ==
    IF Len(s) = 0 THEN ""
    ELSE (IF Ch(s, 1) \in UpperCase THEN ToLower[Ch(s, 1)] ELSE Ch(s, 1))
         \o LowerStr(SubSeq(s, 2, Len(s)))

\* str.strip()
RECURSIVE Strip(_)
Strip(s) ==
    IF Len(s) = 0 THEN s
    ELSE IF Ch(s, 1) \in Space THEN Strip(SubSeq(s, 2, Len(s)))
    ELSE IF Ch(s, Len(s)) \in Space THEN Strip(SubSeq(s, 1, Len(s) - 1))
    ELSE s

\* str.strip('"\'')
RECURSIVE StripQuotes(_)
StripQuotes(s) ==
    IF Len(s) = 0 THEN s
    ELSE IF Ch(s, 1) \in {"\"", "'"} THEN StripQuotes(SubSeq(s, 2, Len(s)))
    ELSE IF Ch(s, Len(s)) \in {"\"", "'"} THEN StripQuotes(SubSeq(s, 1, Len(s) - 1))
    ELSE s

\* str.startswith
StartsWith(s, p) == Len(p) <= Len(s) /\ SubSeq(s, 1, Len(p)) = p

\* str.count of a single character
RECURSIVE Count(_, _)
Count(s, c) ==
    IF Len(s) = 0 THEN 0
    ELSE (IF Ch(s, 1) = c THEN 1 ELSE 0) + Count(SubSeq(s, 2, Len(s)), c)

\* str.rfind of a single character, 1-based, 0 when absent
RECURSIVE RFind(_, _)
RFind(s, c) ==
    IF Len(s) = 0 THEN 0
    ELSE IF Ch(s, Len(s)) = c THEN Len(s)
    ELSE RFind(SubSeq(s, 1, Len(s) - 1), c)

(***************************************************************************)
(* The regular expressions of module re, as far as the source uses them.   *)
(* A pattern is a tuple <<kind, ...>>.  M(r, s, i, g) is the sequence, in  *)
(* the order a backtracking matcher tries them, of the <<j, g'>> such that *)
(* r matches s[i .. j-1], g' being the span <<from, to>> of group 1.       *)
(***************************************************************************)
Lit(t)      == <<"lit", t>>        \* literal text
ILit(t)     == <<"ilit", t>>       \* literal text under re.IGNORECASE
In(S)       == <<"in", S>>         \* [...]
NotIn(S)    == <<"notin", S>>      \* [^...]
Cat(rs)     == <<"cat", rs>>       \* r1 r2 ...
Star(r)     == <<"star", r>>       \* r*
LazyStar(r) == <<"lazystar", r>>   \* r*?
Opt(r)      == <<"opt", r>>        \* r?
Alt(rs)     == <<"alt", rs>>       \* r1|r2|...
Grp(r)      == <<"grp", r>>        \* (r), group 1
NotAhead(r) == <<"notahead", r>>   \* (?!r)
Bol         == <<"bol">>           \* ^
Eol         == <<"eol">>           \* $
WordB       == <<"wordb">>         \* \b
Plus(r)     == Cat(<<r, Star(r)>>)        \* r+
LazyPlus(r) == Cat(<<r, LazyStar(r)>>)    \* r+?
Dot         == NotIn({"\n"})              \* .
Sp          == In(Space)                  \* \s
W           == In(WordChar)               \* \w

NoGroup == <<0, 0>>

IsWordAt(s, i) == i >= 1 /\ i <= Len(s) /\ Ch(s, i) \in WordChar

Progress(res, i) == SelectSeq(res, LAMBDA x : x[1] > i)

RECURSIVE M(_, _, _, _), Then(_, _, _)
M(r, s, i, g) ==
    CASE r[1] = "lit" ->
            IF i + Len(r[2]) - 1 <= Len(s) /\ SubSeq(s, i, i + Len(r[2]) - 1) = r[2]
            THEN << <<i + Len(r[2]), g>> >> ELSE << >>
      [] r[1] = "ilit" ->
            IF i + Len(r[2]) - 1 <= Len(s)
               /\ LowerStr(SubSeq(s, i, i + Len(r[2]) - 1)) = r[2]
            THEN << <<i + Len(r[2]), g>> >> ELSE << >>
      [] r[1] = "in" ->
            IF i <= Len(s) /\ Ch(s, i) \in r[2] THEN << <<i + 1, g>> >> ELSE << >>
      [] r[1] = "notin" ->
            IF i <= Len(s) /\ Ch(s, i) \notin r[2] THEN << <<i + 1, g>> >> ELSE << >>
      [] r[1] = "cat" ->
            IF Len(r[2]) = 0 THEN << <<i, g>> >>
            ELSE Then(Cat(Tail(r[2])), s, M(Head(r[2]), s, i, g))
      [] r[1] = "star" ->
            Then(r, s, Progress(M(r[2], s, i, g), i)) \o << <<i, g>> >>
      [] r[1] = "lazystar" ->
            << <<i, g>> >> \o Then(r, s, Progress(M(r[2], s, i, g), i))
      [] r[1] = "opt" ->
            M(r[2], s, i, g) \o << <<i, g>> >>
      [] r[1] = "alt" ->
            IF Len(r[2]) = 0 THEN << >>
            ELSE M(Head(r[2]), s, i, g) \o M(Alt(Tail(r[2])), s, i, g)
      [] r[1] = "grp" ->
            LET res == M(r[2], s, i, g)
            IN  [k \in 1..Len(res) |-> <<res[k][1], <<i, res[k][1]>>>>]
      [] r[1] = "notahead" ->
            IF Len(M(r[2], s, i, g)) = 0 THEN << <<i, g>> >> ELSE << >>
      [] r[1] = "bol" ->
            IF i = 1 THEN << <<i, g>> >> ELSE << >>
      [] r[1] = "eol" ->
            IF i = Len(s) + 1 THEN << <<i, g>> >> ELSE << >>
      [] r[1] = "wordb" ->
            IF IsWordAt(s, i - 1) # IsWordAt(s, i) THEN << <<i, g>> >> ELSE << >>
Then(r, s, starts) ==
    IF Len(starts) = 0 THEN << >>
    ELSE M(r, s, Head(starts)[1], Head(starts)[2]) \o Then(r, s, Tail(starts))

\* A match object: found, where it starts and ends (to is one past), group(1).
NoMatch == [found |-> FALSE, from |-> 0, to |-> 0, group |-> ""]

MatchAt(r, s, i) ==
    LET res == M(r, s, i, NoGroup)
    IN  IF Len(res) = 0 THEN NoMatch
        ELSE [found |-> TRUE, from |-> i, to |-> res[1][1],
              group |-> SubSeq(s, res[1][2][1], res[1][2][2] - 1)]

\* re.match(r, s)
re_match(r, s) == MatchAt(r, s, 1)

\* re.search(r, s) from position i on: the leftmost match
RECURSIVE SearchFrom(_, _, _)
SearchFrom(r, s, i) ==
    IF i > Len(s) + 1 THEN NoMatch
    ELSE IF MatchAt(r, s, i).found THEN MatchAt(r, s, i)
    ELSE SearchFrom(r, s, i + 1)

re_search(r, s) == SearchFrom(r, s, 1)

\* re.findall(r, s) for a pattern with one group: the groups, left to right
RECURSIVE FindAllFrom(_, _, _)
FindAllFrom(r, s, i) ==
    LET m == SearchFrom(r, s, i)
    IN  IF ~m.found THEN << >>
        ELSE <<m.group>> \o FindAllFrom(r, s, IF m.to > m.from THEN m.to ELSE m.to + 1)

re_findall(r, s) == FindAllFrom(r, s, 1)

(***************************************************************************)
(* os.path, as the source uses it (POSIX)                                  *)
(***************************************************************************)
\* os.path.isabs
isabs(p) == StartsWith(p, "/")

RECURSIVE RStripSlash(_)
RStripSlash(s) ==
    IF Len(s) > 0 /\ Ch(s, Len(s)) = "/" THEN RStripSlash(SubSeq(s, 1, Len(s) - 1))
    ELSE s

\* os.path.dirname
dirname(p) ==
    LET head == SubSeq(p, 1, RFind(p, "/"))
    IN  IF Len(head) > 0 /\ Count(head, "/") # Len(head) THEN RStripSlash(head)
        ELSE head

\* os.path.basename
basename(p) == SubSeq(p, RFind(p, "/") + 1, Len(p))

\* os.path.join of two parts
join(a, b) ==
    IF StartsWith(b, "/") THEN b
    ELSE IF Len(a) = 0 \/ Ch(a, Len(a)) = "/" THEN a \o b
    ELSE a \o "/" \o b

\* ShellScriptAnalyzer._resolve_path
_resolve_path(sourced_file, current_file) ==
    IF ~isabs(sourced_file) THEN join(dirname(current_file), sourced_file)
    ELSE sourced_file

(***************************************************************************)
(* The line classifier's patterns                                          *)
(***************************************************************************)
ThenTail == Opt(Cat(<<Star(Sp), Opt(Lit(";")), Star(Sp), ILit("then")>>))
DoTail   == Opt(Cat(<<Star(Sp), Opt(Lit(";")), Star(Sp), ILit("do")>>))

\* _detect_condition_start: patterns, in order, each with its condition_type
\* and whether it has a group
ConditionPatterns ==
    << <<Cat(<<Bol, ILit("if"), Plus(Sp), Grp(LazyPlus(Dot)), ThenTail, Eol>>), "if", TRUE>>,
       <<Cat(<<Bol, ILit("elif"), Plus(Sp), Grp(LazyPlus(Dot)), ThenTail, Eol>>), "elif", TRUE>>,
       <<Cat(<<Bol, ILit("else"), Star(Sp), Eol>>), "else", FALSE>>,
       <<Cat(<<Bol, ILit("case"), Plus(Sp), Grp(LazyPlus(Dot)), Plus(Sp), ILit("in")>>),
         "case", TRUE>>,
       <<Cat(<<Bol, ILit("while"), Plus(Sp), Grp(LazyPlus(Dot)), DoTail, Eol>>), "while", TRUE>>,
       <<Cat(<<Bol, ILit("for"), Plus(Sp), Grp(LazyPlus(Dot)), DoTail, Eol>>), "for", TRUE>>,
       <<Cat(<<Bol, Star(Sp), Opt(Lit("*")), Lit(")"), Star(Sp), Eol>>), "case_branch", FALSE>>,
       <<Cat(<<Bol, Star(Sp), Star(NotIn({")"})), Lit(")"), Star(Sp), Eol>>),
         "case_branch", FALSE>> >>

RECURSIVE ConditionStartFrom(_, _)
ConditionStartFrom(line, k) ==
    IF k > Len(ConditionPatterns) THEN None
    ELSE LET pat   == ConditionPatterns[k]
             match == re_match(pat[1], line)
         IN  IF match.found
             THEN IF pat[2] = "case_branch" THEN "case_branch: " \o line
                  ELSE IF pat[3] THEN pat[2] \o ": " \o match.group
                  ELSE pat[2]
             ELSE ConditionStartFrom(line, k + 1)

\* ShellScriptAnalyzer._detect_condition_start: the label, or None
_detect_condition_start(line) == ConditionStartFrom(line, 1)

EndPatterns ==
    << Cat(<<Bol, ILit("fi"), Star(Sp), Eol>>),
       Cat(<<Bol, ILit("done"), Star(Sp), Eol>>),
       Cat(<<Bol, ILit("esac"), Star(Sp), Eol>>),
       Cat(<<Bol, Lit("}"), Star(Sp), Eol>>),
       Lit(";;") >>

\* ShellScriptAnalyzer._detect_condition_end
_detect_condition_end(line) ==
    \E k \in 1..Len(EndPatterns) : re_match(EndPatterns[k], line).found

\* analyze_file, lines 58-60: the two definition shapes, the first that matches
func_match(line) ==
    LET m1 == re_match(Cat(<<Bol, Grp(Plus(W)), Star(Sp), Lit("("), Star(Sp), Lit(")"),
                             Star(Sp), Opt(Lit("{"))>>), line)
        m2 == re_match(Cat(<<Bol, Lit("function"), Plus(Sp), Grp(Plus(W)), Star(Sp),
                             Opt(Cat(<<Lit("("), Star(Sp), Lit(")")>>)), Star(Sp),
                             Opt(Lit("{"))>>), line)
    IN  IF m1.found THEN m1 ELSE m2

\* analyze_file, line 75
source_match(line) ==
    re_match(Cat(<<Bol, Star(Sp), Alt(<<Lit("source"), Lit("."), Lit("bash")>>), Plus(Sp),
                   Grp(Plus(NotIn(Space \cup {";", "|", "&"})))>>), line)

(***************************************************************************)
(* The argument inferencer                                                 *)
(***************************************************************************)
\* Code points of the characters of an argument marker
Ord(c) ==
    CASE c = "$" -> 36 [] c = "0" -> 48 [] c = "1" -> 49 [] c = "2" -> 50
      [] c = "3" -> 51 [] c = "4" -> 52 [] c = "5" -> 53 [] c = "6" -> 54
      [] c = "7" -> 55 [] c = "8" -> 56 [] c = "9" -> 57 [] c = "@" -> 64

\* a < b for Python strings
RECURSIVE StrLess(_, _)
StrLess(a, b) ==
    IF Len(b) = 0 THEN FALSE
    ELSE IF Len(a) = 0 THEN TRUE
    ELSE IF Ch(a, 1) # Ch(b, 1) THEN Ord(Ch(a, 1)) < Ord(Ch(b, 1))
    ELSE StrLess(SubSeq(a, 2, Len(a)), SubSeq(b, 2, Len(b)))

\* sorted(list(args))
RECURSIVE sorted(_)
sorted(S) ==
    IF S = {} THEN << >>
    ELSE LET least == CHOOSE a \in S : \A b \in S \ {a} : StrLess(a, b)
         IN  <<least>> \o sorted(S \ {least})

SeqToSet(q) == {q[k] : k \in 1..Len(q)}

\* _extract_args, lines 145-150: the markers one line contributes
LineMarkers(line) ==
    {"$" \o g : g \in SeqToSet(re_findall(
        Cat(<<Lit("$"), Grp(Cat(<<In(Digit \ {"0"}), Star(In(Digit))>>))>>), line))}
    \cup (IF re_search(Cat(<<Lit("$"), In({"@", "*", "#"})>>), line).found
          THEN {"$@"} ELSE {})

\* _extract_args, line 140
BraceDelta(line) == Count(line, "{") - Count(line, "}")

\* _extract_args, line 136: how many lines after the definition line are looked at
ArgWindow == 50

\* The loop of _extract_args from (1-based) line k on; lines are raw lines
RECURSIVE ExtractArgsLoop(_, _, _, _, _)
ExtractArgsLoop(lines, func_line_num, k, brace_count, args) ==
    IF k > Min(func_line_num + ArgWindow, Len(lines)) THEN args
    ELSE LET line  == Strip(lines[k])
             count == brace_count + BraceDelta(line)
         IN  IF k > func_line_num /\ count <= 0 THEN args
             ELSE ExtractArgsLoop(lines, func_line_num, k + 1, count,
                                  args \cup LineMarkers(line))

\* ShellScriptAnalyzer._extract_args
_extract_args(lines, func_line_num) ==
    sorted(ExtractArgsLoop(lines, func_line_num, func_line_num, 0, {}))

(***************************************************************************)
(* The call detector's patterns                                            *)
(***************************************************************************)
\* _find_function_calls, lines 162-167
system_commands ==
    {"echo", "printf", "read", "cd", "ls", "cp", "mv", "rm", "mkdir",
     "chmod", "chown", "grep", "sed", "awk", "cut", "sort", "uniq",
     "cat", "head", "tail", "find", "xargs", "test", "exit", "return",
     "export", "unset", "shift", "getopts", "trap", "kill", "wait"}

\* The blocklist test left out
IsSystemCommandNever(func_name) == FALSE

\* _find_function_calls, lines 170-171
IsSystemCommand(func_name) == func_name \in system_commands

\* _find_function_calls, lines 174-179
CallPatterns(func_name) ==
    << Cat(<<WordB, Lit(func_name), WordB, NotAhead(Cat(<<Star(Sp), Lit("(")>>))>>),
       Cat(<<Lit(func_name), Star(Sp), Lit("("), Star(NotIn({")"})), Lit(")")>>),
       Cat(<<Lit("$"), Lit("("), Star(Sp), Lit(func_name), WordB>>),
       Cat(<<Lit(BackQuote), Star(Sp), Lit(func_name), WordB>>) >>

\* _find_function_calls, lines 181-182: some pattern is found in the line
CallFound(line, func_name) ==
    \E k \in 1..4 : re_search(CallPatterns(func_name)[k], line).found

\* _extract_call_args, line 220
ArgSnippetLimit == 50

\* ShellScriptAnalyzer._extract_call_args
_extract_call_args(line, func_name) ==
    LET m1 == re_search(Cat(<<Lit(func_name), Plus(Sp),
                  Grp(Star(NotIn({";", "|", "&", "<", ">", "\n", BackQuote, "$", "(", ")"})))>>),
                  line)
        m2 == re_search(Cat(<<Lit(func_name), Star(Sp), Lit("("),
                  Grp(Star(NotIn({")"}))), Lit(")")>>), line)
        a1 == Strip(m1.group)
        a2 == Strip(m2.group)
    IN  IF m1.found /\ Len(a1) > 0 THEN SubSeq(a1, 1, Min(ArgSnippetLimit, Len(a1)))
        ELSE IF m2.found /\ Len(a2) > 0 THEN SubSeq(a2, 1, Min(ArgSnippetLimit, Len(a2)))
        ELSE ""

(***************************************************************************)
(* The file sets the analyzer is run on.  A file set names the root path   *)
(* given to generate_map and maps each name in the working directory to a  *)
(* file: how its bytes decode (kind) and its lines.                        *)
(*   utf8   : decodes as UTF-8                                             *)
(*   sjis   : UnicodeDecodeError as UTF-8, decodes as Shift_JIS            *)
(*   binary : UnicodeDecodeError in both encodings                         *)
(*   dir    : a directory (os.path.exists holds, open() raises)            *)
(***************************************************************************)
File(kind, lines) == [kind |-> kind, lines |-> lines]

\* Sequences over V of length at most n
SeqsUpTo(V, n) == UNION {[1..k -> V] : k \in 0..n}

\* The orders in which the elements of S can be listed
Orders(S) ==
    {q \in [1..Cardinality(S) -> S] : \A a, b \in 1..Cardinality(S) : q[a] = q[b] => a = b}

\* The scenario of the analyzer's own description: main.sh includes lib.sh
ScenarioMain ==
    [root  |-> "main.sh",
     files |-> ("main.sh" :> File("utf8", <<"source lib.sh", "build() { run_tests; }", "build">>))
            @@ ("lib.sh" :> File("utf8", <<"run_tests() { echo ok; }">>))]

\* Roots that are not there, not text, or a directory; a file with a blank
\* line, a comment and an indented line
OddRoots ==
    { [root |-> "gone.sh", files |-> ("a.sh" :> File("utf8", << >>))],
      [root |-> "bin",     files |-> ("bin" :> File("binary", << >>))],
      [root |-> "d",       files |-> ("d" :> File("dir", << >>))],
      [root |-> "a.sh",    files |-> ("a.sh" :> File("utf8",
                   <<"# lib", "", "  foo() { :; }", "\tfoo arg1 arg2  ">>))],
      [root |-> "a.sh",    files |-> ("a.sh" :> File("utf8",
                   <<"foo() { :; }", "foo arg1 arg2", "source a.sh", "source nope.sh">>))],
      [root |-> "main.sh",
       files |-> ("main.sh" :> File("utf8", <<"build() { :; }", "source build.sh">>))
              @@ ("build.sh" :> File("utf8", <<"# the build">>))],
      [root |-> "a.sh",
       files |-> ("a.sh" :> File("utf8", <<"source b.sh", "foo() { :; }">>))
              @@ ("b.sh" :> File("utf8", <<"source a.sh", "foo arg1 arg2">>))],
      [root |-> "a.sh",    files |-> ("a.sh" :> File("utf8",
                   <<"foo()", "{", "}", "function bar()", "function baz", "baz">>))],
      [root |-> "a.sh",    files |-> ("a.sh" :> File("utf8",
                   <<"foo() { :; }", "y=$(foo) z", "x=$(foo)", "foo arg1 arg2">>))],
      [root |-> "a.sh",
       files |-> ("a.sh" :> File("utf8", <<"main() {", "if cond", "source b.sh", "helper", "fi", "}">>))
              @@ ("b.sh" :> File("utf8", <<"while w; do", "helper() {", "if other; then">>))],
      [root |-> "a.sh",
       files |-> ("a.sh" :> File("utf8", <<"source b.sh", "foo arg1 arg2", "echo GLOBAL">>))
              @@ ("b.sh" :> File("utf8", <<"foo() { :; }">>))],
      [root |-> "a.sh",    files |-> ("a.sh" :> File("utf8",
                   <<"GLOBAL() { :; }", "GLOBAL">>))] }

\* Inclusion: a.sh (the root) and b.sh hold up to MaxLines lines between them;
\* d is a directory and bin does not decode.
MaxLines == 3

InclusionLines ==
    {"source b.sh", "source ./a.sh", ". d", "bash bin",
     "foo() { :; }", "foo arg1 arg2", "echo() { :; }", "echo hello"}

InclusionFileSet(la, lb) ==
    [root  |-> "a.sh",
     files |-> ("a.sh" :> File("utf8", la)) @@ ("b.sh" :> File("sjis", lb))
            @@ ("d" :> File("dir", << >>)) @@ ("bin" :> File("binary", << >>))]

InclusionFileSets ==
    {InclusionFileSet(SubSeq(p[1], 1, p[2]), SubSeq(p[1], p[2] + 1, Len(p[1]))) :
        p \in {q \in SeqsUpTo(InclusionLines, MaxLines) \X (0..MaxLines) : q[2] <= Len(q[1])}}

FileSets == InclusionFileSets \cup OddRoots \cup {ScenarioMain}

\* One file t.sh whose first line is Prelude, followed by body
OneFile(Prelude, body) ==
    [root |-> "t.sh", files |-> ("t.sh" :> File("utf8", <<Prelude>> \o body))]

\* Conditionals: t.sh defines f and then holds up to MaxConditionLines lines
MaxConditionLines == 4

ConditionLines ==
    {"f() { :; }", "if cond", "if other; then", "else", "fi", "f x", "while w; do", "done",
     "source t.sh"}

ConditionFileSets ==
    {OneFile("f() { :; }", body) : body \in SeqsUpTo(ConditionLines, MaxConditionLines)}
    \cup {ScenarioMain}

\* Arguments: t.sh opens the body of f and then holds up to MaxBodyLines lines
MaxBodyLines == 3

BodyLines ==
    {"echo $1 $2", "run $@", "}", "echo $3; }", "shift $#", "g() {"}

ArgumentFileSets ==
    {OneFile("f() {", body) : body \in SeqsUpTo(BodyLines, MaxBodyLines)}
    \cup {ScenarioMain}

\* Two processes: t.sh defines f and then holds up to MaxTwiceLines lines
MaxTwiceLines == 3

TwiceLines == {"g() { :; }", "f; g", "g x", "f"}

TwiceFileSets ==
    {OneFile("f() { :; }", body) : body \in SeqsUpTo(TwiceLines, MaxTwiceLines)}
    \cup {ScenarioMain}

LinesOf(F) == UNION {UNION {SeqToSet(f.files[n].lines) : n \in DOMAIN f.files} : f \in F}

\* Every line of every file set, and every name a line can define
AllLines ==
    InclusionLines \cup ConditionLines \cup BodyLines \cup TwiceLines
    \cup {"f() { :; }", "f() {"} \cup LinesOf(OddRoots \cup {ScenarioMain})

GLOBAL == "GLOBAL"

AllNames ==
    {func_match(Strip(l)).group : l \in {k \in AllLines : func_match(Strip(k)).found}}
    \cup {GLOBAL}

(***************************************************************************)
(* What the classifier and the call detector compute for a line depends on *)
(* the line alone (and, for a call, on the name): it is tabulated over the *)
(* lines of the corpus.                                                    *)
(***************************************************************************)
\* analyze_file, lines 38-84: the category of a line, in the order of the tests
Classify(raw) ==
    LET line == Strip(raw)
        cs   == _detect_condition_start(line)
        fm   == func_match(line)
        sm   == source_match(line)
    IN  IF Len(line) = 0 \/ StartsWith(line, "#")
        THEN [kind |-> "skip", line |-> line, arg |-> ""]
        ELSE IF cs # None THEN [kind |-> "condition_start", line |-> line, arg |-> cs]
        ELSE IF _detect_condition_end(line)
        THEN [kind |-> "condition_end", line |-> line, arg |-> ""]
        ELSE IF fm.found THEN [kind |-> "definition", line |-> line, arg |-> fm.group]
        ELSE IF sm.found
        THEN [kind |-> "source", line |-> line, arg |-> StripQuotes(sm.group)]
        ELSE [kind |-> "statement", line |-> line, arg |-> ""]

LineTable == [raw \in AllLines |-> Classify(raw)]

\* _find_function_calls, lines 181-183: whether func_name is found in the
\* (stripped) line, and the argument snippet
CallProbe(line, func_name) ==
    [found |-> CallFound(line, func_name), args |-> _extract_call_args(line, func_name)]

CallTable == [raw \in AllLines |-> [n \in AllNames |-> CallProbe(Strip(raw), n)]]

(***************************************************************************)
(* The file system: os.path.exists and open()                              *)
(***************************************************************************)
\* The components of a path, split at "/"
RECURSIVE Components(_)
Components(p) ==
    IF Count(p, "/") = 0 THEN <<p>>
    ELSE Append(Components(SubSeq(p, 1, RFind(p, "/") - 1)),
                SubSeq(p, RFind(p, "/") + 1, Len(p)))

\* Whether the name (walked so far from the working directory) is a directory
IsDir(files, name) ==
    name = "" \/ (name \in DOMAIN files /\ files[name].kind = "dir")

\* The walk of a relative path from the working directory, which is flat: the
\* name reached ("" is the working directory itself), or Missing
Missing == "/"

RECURSIVE Walk(_, _, _)
Walk(files, at, comps) ==
    IF Len(comps) = 0 THEN at
    ELSE IF at = Missing \/ ~IsDir(files, at) THEN Missing
    ELSE LET c == Head(comps)
         IN  IF c = "" \/ c = "." THEN Walk(files, at, Tail(comps))
             ELSE IF c = ".." THEN (IF at = "" THEN Missing ELSE Walk(files, "", Tail(comps)))
             ELSE IF at = "" /\ c \in DOMAIN files THEN Walk(files, c, Tail(comps))
             ELSE Missing

\* The file a path names: its name in the working directory, or Missing.
\* Nothing outside the working directory is there.
Resolve(files, p) ==
    IF Len(p) = 0 \/ isabs(p) THEN Missing ELSE Walk(files, "", Components(p))

\* os.path.exists
exists(files, p) == Resolve(files, p) # Missing

\* analyze_file, lines 22-30: what reading the file at path p does.  gone says
\* when the file vanishes: "no", "before_open" or "before_retry".
\*   <<"lines", name>> : the lines of the file were read
\*   <<"return", "">>  : line 30
\*   <<"raise", e>>    : exception e leaves analyze_file
ReadOutcome(files, p, gone) ==
    LET name == Resolve(files, p)
        kind == IF name = "" THEN "dir" ELSE files[name].kind
    IN  IF gone = "before_open" THEN <<"raise", "FileNotFoundError">>
        ELSE IF kind = "dir" THEN <<"raise", "IsADirectoryError">>
        ELSE IF kind = "utf8" THEN <<"lines", name>>
        ELSE IF gone = "before_retry" THEN <<"return", "">>
        ELSE IF kind = "sjis" THEN <<"lines", name>>
        ELSE <<"return", "">>

(***************************************************************************)
(* The registry: self.functions[filepath] is a dict, kept here as the      *)
(* sequence of its entries in insertion order; an entry holds its key      *)
(* (name), args, line and calls.                                           *)
(***************************************************************************)
HasKey(d, k) == \E i \in 1..Len(d) : d[i].name = k

KeyIndex(d, k) == CHOOSE i \in 1..Len(d) : d[i].name = k

\* d[k] = e that stores nothing under a key the dict does not hold yet
SetItemOfExistingKey(d, e) ==
    IF HasKey(d, e.name) THEN [d EXCEPT ![KeyIndex(d, e.name)] = e] ELSE d

\* d[k] = e: an existing key keeps its place
SetItem(d, e) ==
    IF HasKey(d, e.name) THEN [d EXCEPT ![KeyIndex(d, e.name)] = e] ELSE Append(d, e)

\* _find_function_calls, lines 157-159
all_functions(funcs) == UNION {{funcs[f][i].name : i \in 1..Len(funcs[f])} : f \in DOMAIN funcs}

\* _find_function_calls, lines 170-204: the body of the loop for one name,
\* probe being what lines 181-183 find of it in the line.  acc holds the
\* registry and the calls appended so far (added).
FindCallsStep(acc, func_name, probe, current_function, filepath, condition) ==
    LET funcs     == acc.functions
        call_info == [function |-> func_name, args |-> probe.args,
                      condition |-> condition]
        d0        == IF filepath \in DOMAIN funcs THEN funcs[filepath] ELSE << >>
        d1        == IF current_function = GLOBAL /\ ~HasKey(d0, GLOBAL)
                     THEN Append(d0, [name |-> GLOBAL, args |-> << >>, line |-> 0,
                                      calls |-> << >>])
                     ELSE d0
        k         == KeyIndex(d1, current_function)
        d2        == [d1 EXCEPT ![k].calls = Append(@, call_info)]
    IN  IF IsSystemCommand(func_name) \/ ~probe.found
        THEN acc
        ELSE IF current_function # GLOBAL /\ ~HasKey(d0, current_function)
        THEN acc
        ELSE [functions |-> (filepath :> d2) @@ funcs,
              added |-> Append(acc.added, call_info)]

\* _find_function_calls, lines 169-205, over the names still to visit
RECURSIVE FindCallsLoop(_, _, _, _, _, _)
FindCallsLoop(acc, names, raw, current_function, filepath, condition) ==
    IF Len(names) = 0 THEN acc
    ELSE FindCallsLoop(FindCallsStep(acc, Head(names), CallTable[raw][Head(names)],
                                     current_function, filepath, condition),
                       Tail(names), raw, current_function, filepath, condition)

\* Every name some line mentions, whether the registry holds it or not
IterationOrderOfAllNames(S, seed) == seed

\* The order in which a set of names is iterated under a hash seed (an order
\* of the names some line mentions; the others match no line)
IterationOrder(S, seed) == SelectSeq(seed, LAMBDA n : n \in S)

\* ShellScriptAnalyzer._find_function_calls
_find_function_calls(funcs, seed, raw, current_function, filepath, condition) ==
    FindCallsLoop([functions |-> funcs, added |-> << >>],
                  IterationOrder(all_functions(funcs), seed), raw,
                  current_function, filepath, condition)

(***************************************************************************)
(* The map renderer                                                        *)
(***************************************************************************)
RECURSIVE JoinComma(_)
JoinComma(q) ==
    IF Len(q) = 0 THEN ""
    ELSE IF Len(q) = 1 THEN q[1]
    ELSE q[1] \o ", " \o JoinComma(Tail(q))

\* _build_map_tree, lines 251-253 and 261-263: the line of one call
CallLine(call) ==
    "    -> " \o call.function
    \o (IF call.args # "" THEN "(" \o call.args \o ")" ELSE "")
    \o (IF call.condition # None THEN " [" \o call.condition \o "]" ELSE "")

CallLines(calls) == [k \in 1..Len(calls) |-> CallLine(calls[k])]

\* _build_map_tree, lines 246-263: the lines of one entry
EntryLines(e) ==
    IF e.name = GLOBAL
    THEN (IF Len(e.calls) > 0 THEN <<"  [GLOBAL_SCOPE]">> \o CallLines(e.calls) ELSE << >>)
    ELSE <<"  " \o e.name \o (IF Len(e.args) > 0 THEN "(" \o JoinComma(e.args) \o ")" ELSE "")>>
         \o CallLines(e.calls)

RECURSIVE Flatten(_)
Flatten(qs) == IF Len(qs) = 0 THEN << >> ELSE Head(qs) \o Flatten(Tail(qs))

\* ShellScriptAnalyzer._build_map_tree, at indent 0
_build_map_tree(files, analyzed, srcs, funcs, filepath) ==
    IF filepath \notin analyzed THEN << >>
    ELSE LET sourced == IF filepath \in DOMAIN srcs THEN srcs[filepath] ELSE << >>
             there   == SelectSeq(sourced, LAMBDA q : exists(files, q))
             entries == IF filepath \in DOMAIN funcs THEN funcs[filepath] ELSE << >>
         IN  <<basename(filepath)>>
             \o [k \in 1..Len(there) |-> "  -> " \o basename(there[k])]
             \o Flatten([k \in 1..Len(entries) |-> EntryLines(entries[k])])

(***************************************************************************)
(* The state                                                               *)
(***************************************************************************)
VARIABLES
    fs,              \* the file set the process runs on
    hashseed,        \* the process's string hash seed, as the order it gives names
    phase,           \* "start", "run", "done" (generate_map returned), "raised"
    analyzed_files,  \* self.analyzed_files
    functions,       \* self.functions
    sources,         \* self.sources
    stack,           \* the activations of analyze_file that scan a file, innermost last
    call,            \* the argument of a call of analyze_file about to run, or None
    error,           \* the exception that left generate_map, or None
    report,          \* what generate_map returned
    reads,           \* history: the files read, by their name on disk, in order
    last,            \* history: the calls the last scanned line appended, and its place
    process,         \* 1 for the first process, 2 for the second one
    first_report,    \* the report of the first process, once the second one runs
    scanned          \* history: the paths whose scan has reached the end of the file

vars == <<fs, hashseed, phase, analyzed_files, functions, sources, stack, call, error,
          report, reads, last, process, first_report, scanned>>

\* An activation: filepath, the file read (lines are fs.files[file].lines), the
\* number of the line the loop is at, whether the recursive call made at that
\* line has returned (resumed), and the three locals of lines 32-34.
Frame(filepath, file) ==
    [filepath |-> filepath, file |-> file, line_num |-> 1, resumed |-> FALSE,
     current_function |-> None, condition_depth |-> 0, current_condition |-> None]

Top == stack[Len(stack)]

Lines(fr) == fs.files[fr.file].lines

NoLast == [filepath |-> "", line_num |-> 0, calls |-> << >>]

\* The names a line of the file set can define (and the global pseudo-name)
\* that some line of the file set mentions as a call
MentionedNames(f) ==
    LET lines   == LinesOf({f})
        defined == {LineTable[l].arg : l \in {k \in lines : LineTable[k].kind = "definition"}}
                   \cup {GLOBAL}
    IN  {n \in defined : \E l \in lines : CallTable[l][n].found}

\* How deep analyze_file may nest before the interpreter raises RecursionError
RecursionLimit == 3

\* A new process on file set f: ShellScriptAnalyzer(), line 8-11
NewProcess(f) ==
    /\ fs' = f
    /\ hashseed' \in Orders(MentionedNames(f))
    /\ phase' = "start"
    /\ analyzed_files' = {}
    /\ functions' = << >>
    /\ sources' = << >>
    /\ stack' = << >>
    /\ call' = None
    /\ error' = None
    /\ report' = << >>
    /\ reads' = << >>
    /\ scanned' = {}
    /\ last' = NoLast

InitOn(F) ==
    /\ fs \in F
    /\ hashseed \in Orders(MentionedNames(fs))
    /\ phase = "start"
    /\ analyzed_files = {}
    /\ functions = << >>
    /\ sources = << >>
    /\ stack = << >>
    /\ call = None
    /\ error = None
    /\ report = << >>
    /\ reads = << >>
    /\ last = NoLast
    /\ process = 1
    /\ first_report = << >>
    /\ scanned = {}

Init == InitOn(FileSets)

(***************************************************************************)
(* The steps                                                               *)
(***************************************************************************)
\* generate_map, line 225: the call of analyze_file(root_file)
GenerateMap ==
    /\ phase = "start"
    /\ phase' = "run"
    /\ call' = fs.root
    /\ UNCHANGED <<fs, hashseed, analyzed_files, functions, sources, stack, error, report,
                   reads, last, process, first_report, scanned>>

\* An exception leaves generate_map: every activation is unwound
Raise(e) ==
    /\ phase' = "raised"
    /\ error' = e
    /\ stack' = << >>
    /\ call' = None

\* The guard of line 15 without its test of the visited set
OnlyMissing(visited, files, filepath) == ~exists(files, filepath)

\* analyze_file, line 15: the guard
AlreadyAnalyzedOrMissing(visited, files, filepath) ==
    filepath \in visited \/ ~exists(files, filepath)

\* analyze_file, lines 15-34: the guard, the three registrations and the read
AnalyzeFile ==
    /\ phase = "run"
    /\ call # None
    /\ last' = NoLast
    /\ IF Len(stack) >= RecursionLimit
       THEN /\ Raise("RecursionError")
            /\ UNCHANGED <<analyzed_files, functions, sources, reads>>
       ELSE IF AlreadyAnalyzedOrMissing(analyzed_files, fs.files, call)
       THEN /\ call' = None
            /\ UNCHANGED <<phase, error, stack, analyzed_files, functions, sources, reads>>
       ELSE /\ analyzed_files' = analyzed_files \cup {call}
            /\ functions' = (call :> << >>) @@ functions
            /\ sources' = (call :> << >>) @@ sources
            /\ \E gone \in {"no", "before_open", "before_retry"} :
                 LET out == ReadOutcome(fs.files, call, gone)
                 IN  IF out[1] = "raise"
                     THEN Raise(out[2]) /\ UNCHANGED reads
                     ELSE IF out[1] = "return"
                     THEN call' = None /\ UNCHANGED <<phase, error, stack, reads>>
                     ELSE /\ stack' = Append(stack, Frame(call, out[2]))
                          /\ reads' = Append(reads, out[2])
                          /\ call' = None
                          /\ UNCHANGED <<phase, error>>
    /\ UNCHANGED <<fs, hashseed, report, process, first_report, scanned>>

\* The top activation with the loop moved to the next line
Advance(fr) == [fr EXCEPT !.line_num = @ + 1, !.resumed = FALSE]

\* analyze_file, lines 44-47
ConditionStarted(fr, condition_start) ==
    [fr EXCEPT !.condition_depth = @ + 1, !.current_condition = condition_start]

\* analyze_file, lines 50-55
ConditionEnded(fr) ==
    IF fr.condition_depth - 1 <= 0
    THEN [fr EXCEPT !.condition_depth = 0, !.current_condition = None]
    ELSE [fr EXCEPT !.condition_depth = @ - 1]

\* The reset of line 70 left out
FunctionStartedKeepsDepth(fr, func_name) ==
    [fr EXCEPT !.current_function = func_name, !.current_condition = None]

\* analyze_file, lines 69-71
FunctionStarted(fr, func_name) ==
    [fr EXCEPT !.current_function = func_name, !.condition_depth = 0,
               !.current_condition = None]

\* analyze_file, lines 64-68
NewEntry(func_name, lines, line_num) ==
    [name |-> func_name, args |-> _extract_args(lines, line_num), line |-> line_num,
     calls |-> << >>]

\* analyze_file, line 84: the call detector on the line the activation is at
CallsOfLine(fr) ==
    _find_function_calls(functions, hashseed, Lines(fr)[fr.line_num],
                         IF fr.current_function # None THEN fr.current_function ELSE GLOBAL,
                         fr.filepath, fr.current_condition)

DetectCalls(fr, found) ==
    /\ functions' = found.functions
    /\ last' = [filepath |-> fr.filepath, line_num |-> fr.line_num, calls |-> found.added]
    /\ stack' = [stack EXCEPT ![Len(stack)] = Advance(fr)]
    /\ UNCHANGED <<sources, call>>

\* analyze_file, lines 38-84: the body of the loop on a line classified as info
ScanStep(fr, info) ==
    CASE info.kind = "skip" ->
           /\ stack' = [stack EXCEPT ![Len(stack)] = Advance(fr)]
           /\ last' = NoLast
           /\ UNCHANGED <<functions, sources, call>>
      [] info.kind = "condition_start" ->
           /\ stack' = [stack EXCEPT ![Len(stack)] = Advance(ConditionStarted(fr, info.arg))]
           /\ last' = NoLast
           /\ UNCHANGED <<functions, sources, call>>
      [] info.kind = "condition_end" ->
           /\ stack' = [stack EXCEPT ![Len(stack)] = Advance(ConditionEnded(fr))]
           /\ last' = NoLast
           /\ UNCHANGED <<functions, sources, call>>
      [] info.kind = "definition" ->
           /\ functions' = [functions EXCEPT ![fr.filepath] =
                  SetItem(@, NewEntry(info.arg, Lines(fr), fr.line_num))]
           /\ stack' = [stack EXCEPT ![Len(stack)] = Advance(FunctionStarted(fr, info.arg))]
           /\ last' = NoLast
           /\ UNCHANGED <<sources, call>>
      [] info.kind = "source" ->
           /\ sources' = [sources EXCEPT ![fr.filepath] =
                  Append(@, _resolve_path(info.arg, fr.filepath))]
           /\ call' = _resolve_path(info.arg, fr.filepath)
           /\ stack' = [stack EXCEPT ![Len(stack)].resumed = TRUE]
           /\ last' = NoLast
           /\ UNCHANGED functions
      [] info.kind = "statement" ->
           DetectCalls(fr, CallsOfLine(fr))

\* analyze_file, lines 36-84: one line of the loop, up to the recursive call
\* when the line is an inclusion directive
ScanLine ==
    /\ phase = "run"
    /\ call = None
    /\ Len(stack) > 0
    /\ ~Top.resumed
    /\ Top.line_num <= Len(Lines(Top))
    /\ ScanStep(Top, LineTable[Lines(Top)[Top.line_num]])
    /\ UNCHANGED <<fs, hashseed, phase, analyzed_files, error, report, reads, process,
                   first_report, scanned>>

\* analyze_file, line 84, on an inclusion directive: the recursive call of
\* line 80 has returned and the same line goes to the call detector
Resume ==
    /\ phase = "run"
    /\ call = None
    /\ Len(stack) > 0
    /\ Top.resumed
    /\ DetectCalls(Top, CallsOfLine(Top))
    /\ UNCHANGED <<fs, hashseed, phase, analyzed_files, error, report, reads, process,
                   first_report, scanned>>

\* The three locals of lines 32-34 kept in one place for all activations:
\* the activation that returns leaves its own to the one it returns to
ReturnSharingState ==
    /\ phase = "run"
    /\ call = None
    /\ Len(stack) > 0
    /\ ~Top.resumed
    /\ Top.line_num > Len(Lines(Top))
    /\ stack' = [i \in 1..(Len(stack) - 1) |->
                   IF i = Len(stack) - 1
                   THEN [stack[i] EXCEPT !.current_function = Top.current_function,
                                         !.condition_depth = Top.condition_depth,
                                         !.current_condition = Top.current_condition]
                   ELSE stack[i]]
    /\ scanned' = scanned \cup {Top.filepath}
    /\ last' = NoLast
    /\ UNCHANGED <<fs, hashseed, phase, analyzed_files, functions, sources, call, error,
                   report, reads, process, first_report>>

\* analyze_file: the loop of line 36 is over, the activation returns
Return ==
    /\ phase = "run"
    /\ call = None
    /\ Len(stack) > 0
    /\ ~Top.resumed
    /\ Top.line_num > Len(Lines(Top))
    /\ stack' = SubSeq(stack, 1, Len(stack) - 1)
    /\ scanned' = scanned \cup {Top.filepath}
    /\ last' = NoLast
    /\ UNCHANGED <<fs, hashseed, phase, analyzed_files, functions, sources, call, error,
                   report, reads, process, first_report>>

\* generate_map, line 226
BuildMapTree ==
    /\ phase = "run"
    /\ call = None
    /\ Len(stack) = 0
    /\ report' = _build_map_tree(fs.files, analyzed_files, sources, functions, fs.root)
    /\ phase' = "done"
    /\ last' = NoLast
    /\ UNCHANGED <<fs, hashseed, analyzed_files, functions, sources, stack, call, error,
                   reads, process, first_report, scanned>>

Next ==
    \/ GenerateMap
    \/ AnalyzeFile
    \/ ScanLine
    \/ Resume
    \/ Return
    \/ BuildMapTree

Spec == Init /\ [][Next]_vars

\* The scan of conditionals
SpecConditions == InitOn(ConditionFileSets) /\ [][Next]_vars

\* The inference of arguments
SpecArguments == InitOn(ArgumentFileSets) /\ [][Next]_vars

\* main(), lines 277-281, a second time on the same files: a new process, with
\* a hash seed of its own, once the first one has printed its report
Rerun ==
    /\ phase = "done"
    /\ process = 1
    /\ process' = 2
    /\ first_report' = report
    /\ NewProcess(fs)

NextTwice == Next \/ Rerun

SpecTwice == InitOn(TwiceFileSets) /\ [][NextTwice]_vars

(***************************************************************************)
(* What the properties below speak of                                      *)
(***************************************************************************)
\* Every CallEdge of the registry
AllCalls ==
    UNION {UNION {SeqToSet(functions[f][i].calls) : i \in 1..Len(functions[f])} :
              f \in DOMAIN functions}

\* The lines of the file the last scanned statement is in
LastLines == fs.files[Resolve(fs.files, last.filepath)].lines

\* A line went to the call detector in the last step
Scanned == last.filepath # ""

\* The calls of the global pseudo-entry of a file
GlobalCalls(filepath) ==
    IF HasKey(functions[filepath], GLOBAL)
    THEN functions[filepath][KeyIndex(functions[filepath], GLOBAL)].calls
    ELSE << >>

\* The brace balance of the lines before line k
RECURSIVE BalanceBefore(_, _)
BalanceBefore(lines, k) ==
    IF k <= 1 THEN 0 ELSE BalanceBefore(lines, k - 1) + BraceDelta(Strip(lines[k - 1]))

\* The shell's compound commands: what closes the one a line opens ("" if none)
ClosedBy(raw) ==
    LET l == Strip(raw)
    IN  IF StartsWith(l, "if ") THEN "fi"
        ELSE IF StartsWith(l, "while ") \/ StartsWith(l, "for ") THEN "done"
        ELSE IF StartsWith(l, "case ") THEN "esac"
        ELSE ""

\* The compound commands open after lines i .. k-1, on top of those of stk
\* (line numbers, innermost last)
RECURSIVE OpenFrom(_, _, _, _)
OpenFrom(lines, i, k, stk) ==
    IF i >= k THEN stk
    ELSE IF ClosedBy(lines[i]) # "" THEN OpenFrom(lines, i + 1, k, Append(stk, i))
    ELSE IF Len(stk) > 0 /\ Strip(lines[i]) = ClosedBy(lines[stk[Len(stk)]])
    THEN OpenFrom(lines, i + 1, k, SubSeq(stk, 1, Len(stk) - 1))
    ELSE OpenFrom(lines, i + 1, k, stk)

OpenAt(lines, k) == OpenFrom(lines, 1, k, << >>)

\* The line that closes the compound command line j opens, 0 if none does
MatchingClose(lines, j) ==
    LET closing == {m \in (j + 1)..Len(lines) : Len(OpenFrom(lines, j, m + 1, << >>)) = 0}
    IN  IF closing = {} THEN 0 ELSE CHOOSE m \in closing : \A n \in closing : m <= n

IsIf(raw) == ClosedBy(raw) = "fi"

\* Before line k every fi, done and esac closes the innermost open compound
\* command, and every else and elif lies directly in an if
WellFormedBefore(lines, k) ==
    \A i \in 1..(k - 1) :
       LET l    == Strip(lines[i])
           open == OpenAt(lines, i)
       IN  /\ l \in {"fi", "done", "esac"} =>
                Len(open) > 0 /\ ClosedBy(lines[open[Len(open)]]) = l
           /\ (l = "else" \/ StartsWith(l, "elif ")) =>
                Len(open) > 0 /\ IsIf(lines[open[Len(open)]])

(***************************************************************************)
(* C1: started on a root file, analyze_file terminates, the visited set    *)
(* holds no file twice and each file on disk is loaded and scanned at most *)
(* once, whatever the inclusion directives (cycles, self-inclusion,        *)
(* relative tokens such as ./b.sh).                                        *)
(***************************************************************************)
C1_EachFileLoadedOnce ==
    /\ error # "RecursionError"
    /\ \A i, j \in 1..Len(reads) : reads[i] = reads[j] => i = j
    /\ \A p, q \in analyzed_files :
          Resolve(fs.files, p) = Resolve(fs.files, q) => p = q

(***************************************************************************)
(* C2: no error ever leaves generate_map / analyze_file: a root or an      *)
(* inclusion target that cannot be read is skipped silently.               *)
(***************************************************************************)
C2_NoErrorPropagates == phase # "raised" /\ error = None

(***************************************************************************)
(* C3: when a file defines foo() { :; } and a later line outside every     *)
(* function body is the statement foo arg1 arg2, a CallEdge with target    *)
(* foo and a non-empty argument snippet is recorded, attached to the       *)
(* file's global-scope pseudo-entry.                                       *)
(***************************************************************************)
C3_TopLevelCallIsGlobal ==
    (/\ Scanned
     /\ Strip(LastLines[last.line_num]) = "foo arg1 arg2"
     /\ \E j \in 1..(last.line_num - 1) : Strip(LastLines[j]) = "foo() { :; }"
     /\ BalanceBefore(LastLines, last.line_num) = 0)
    => LET calls == GlobalCalls(last.filepath)
       IN  /\ Len(calls) > 0
           /\ calls[Len(calls)].function = "foo"
           /\ calls[Len(calls)].args # ""
           /\ last.calls = <<calls[Len(calls)]>>

(***************************************************************************)
(* C4: every CallEdge recorded from a statement line that lies between an  *)
(* `if cond` line and its matching `fi` carries the label "if: cond",      *)
(* whatever lies in between (nested constructs closed before the call      *)
(* included).                                                              *)
(***************************************************************************)
C4_LabelInsideIf ==
    Scanned =>
      LET open == OpenAt(LastLines, last.line_num)
          j    == open[Len(open)]
      IN  (/\ WellFormedBefore(LastLines, last.line_num)
           /\ Len(open) > 0
           /\ IsIf(LastLines[j])
           /\ MatchingClose(LastLines, j) > last.line_num)
          => \A k \in 1..Len(last.calls) :
                last.calls[k].condition = _detect_condition_start(Strip(LastLines[j]))

(***************************************************************************)
(* C5: once the `fi` that matches a top-level `if cond` line has been      *)
(* scanned, every CallEdge recorded from the lines after it (until the     *)
(* next conditional-start line) has no conditional label.                  *)
(***************************************************************************)
C5_NoLabelAfterFi ==
    Scanned =>
      ((\E j \in 1..(last.line_num - 1) :
          /\ WellFormedBefore(LastLines, last.line_num)
          /\ IsIf(LastLines[j])
          /\ Len(OpenAt(LastLines, j)) = 0
          /\ MatchingClose(LastLines, j) > 0
          /\ MatchingClose(LastLines, j) < last.line_num
          /\ \A i \in (MatchingClose(LastLines, j) + 1)..(last.line_num - 1) :
                LineTable[LastLines[i]].kind # "condition_start")
       => \A k \in 1..Len(last.calls) : last.calls[k].condition = None)

(***************************************************************************)
(* C6: two runs of the analyzer over the same unmodified file set and root *)
(* produce the same report, line for line.                                 *)
(***************************************************************************)
C6_SameReportTwice ==
    (process = 2 /\ phase = "done") => report = first_report

(***************************************************************************)
(* C7: for main.sh (source lib.sh; build() { run_tests; }; build) and      *)
(* lib.sh (run_tests() { echo ok; }), the report holds the line of         *)
(* main.sh, the inclusion edge to lib.sh, an entry for build with a call   *)
(* edge to run_tests, and a global-scope section with a call edge to       *)
(* build.                                                                  *)
(***************************************************************************)
C7_MainScenarioReport ==
    (fs = ScenarioMain /\ phase = "done") =>
       /\ \E i \in 1..Len(report) : report[i] = "main.sh"
       /\ \E i \in 1..Len(report) : report[i] = "  -> lib.sh"
       /\ \E i \in 1..(Len(report) - 1) :
             report[i] = "  build" /\ report[i + 1] = "    -> run_tests"
       /\ \E i \in 1..(Len(report) - 1) :
             report[i] = "  [GLOBAL_SCOPE]" /\ report[i + 1] = "    -> build"

(***************************************************************************)
(* C8: no CallEdge of the registry ever has a blocklisted name (echo, ..., *)
(* wait) as its target, even when a file defines a function of that name   *)
(* and later lines invoke it.                                              *)
(***************************************************************************)
C8_NoBlocklistedTarget == \A c \in AllCalls : c.function \notin system_commands

\* echo is a known function and the line echo hello has just been scanned
C8_Witness ==
    /\ Scanned
    /\ Strip(LastLines[last.line_num]) = "echo hello"
    /\ "echo" \in all_functions(functions)

(***************************************************************************)
(* C9: for a definition whose body spans at most 50 lines, the inferred    *)
(* argument list is the sorted set of the markers $N of the lines of the   *)
(* body, from the definition line through the line that closes the body's  *)
(* brace, plus $@ iff one of them holds $@, $* or $#.                      *)
(***************************************************************************)
\* The line that closes the brace opened at or after line d: 0 if none
BodyEnd(lines, d) ==
    LET balance(c) == BalanceBefore(lines, c + 1) - BalanceBefore(lines, d)
        opened(c)  == \E i \in d..c : Count(lines[i], "{") > 0
        closing    == {c \in d..Len(lines) : opened(c) /\ balance(c) <= 0}
    IN  IF closing = {} THEN 0 ELSE CHOOSE c \in closing : \A n \in closing : c <= n

BodyMarkers(lines, d) ==
    UNION {LineMarkers(Strip(lines[i])) : i \in d..BodyEnd(lines, d)}

C9_ArgsAreBodyMarkers ==
    \A f \in DOMAIN functions : \A i \in 1..Len(functions[f]) :
       LET e     == functions[f][i]
           lines == fs.files[Resolve(fs.files, f)].lines
       IN  (e.line > 0 /\ BodyEnd(lines, e.line) > 0
            /\ BodyEnd(lines, e.line) - e.line <= ArgWindow)
           => e.args = sorted(BodyMarkers(lines, e.line))

(***************************************************************************)
(* C10: at every point of the scan of a file the conditional depth is a    *)
(* non-negative integer and the label is present iff the depth is greater  *)
(* than 0; after a function-definition line the state is (0, absent).      *)
(***************************************************************************)
\* The line the loop has just handled was a definition
JustDefined(fr) ==
    /\ fr.line_num > 1
    /\ ~fr.resumed
    /\ LineTable[Lines(fr)[fr.line_num - 1]].kind = "definition"

C10_ConditionalContext ==
    \A i \in 1..Len(stack) :
       LET fr == stack[i]
       IN  /\ fr.condition_depth \in Nat
           /\ (fr.current_condition # None) <=> (fr.condition_depth > 0)
           /\ JustDefined(fr) => (fr.condition_depth = 0 /\ fr.current_condition = None)

\* A definition line has just reset a conditional that was open
C10_Witness ==
    \E i \in 1..Len(stack) :
       /\ JustDefined(stack[i])
       /\ stack[i].line_num > 2
       /\ LineTable[Lines(stack[i])[stack[i].line_num - 2]].kind = "condition_start"


(***************************************************************************)
(* C11: analyze_file called on a path that is already in the visited set,  *)
(* or on a path that does not exist, returns without changing the visited  *)
(* set, the function registry (the entries and call edges already recorded *)
(* for that file included) or the inclusion map.                           *)
(***************************************************************************)
C11_SkippedCallChangesNothing ==
    [][(/\ call # None
        /\ (call \in analyzed_files \/ Resolve(fs.files, call) = Missing))
       => UNCHANGED <<analyzed_files, functions, sources>>]_vars

\* analyze_file is about to run on a visited file that has entries and edges
C11_Witness ==
    /\ call # None
    /\ call \in analyzed_files
    /\ \E i \in 1..Len(functions[call]) : Len(functions[call][i].calls) > 0


(***************************************************************************)
(* C12: a line classified as an inclusion directive (source, . or bash     *)
(* followed by a path token) is consumed by the inclusion resolver and     *)
(* never produces a CallEdge, even when the path token contains the name   *)
(* of a known function (source build.sh with a known function build).      *)
(***************************************************************************)
C12_InclusionLineYieldsNoCall ==
    (Scanned /\ LineTable[LastLines[last.line_num]].kind = "source")
    => last.calls = << >>


(***************************************************************************)
(* C13: call detection is order-dependent on the registry: a CallEdge with *)
(* target n is appended while scanning a line only if, at that moment, the *)
(* registry of some already-visited file contains an entry for n (so a     *)
(* call that precedes every definition of n reached so far yields no       *)
(* edge), while after an inclusion directive has been processed every      *)
(* function defined in the included file is known to all subsequent lines  *)
(* of the including file.                                                  *)
(***************************************************************************)
\* The names the definition lines of the file at path p define
DefinedIn(p) ==
    LET name  == Resolve(fs.files, p)
        lines == IF name \in DOMAIN fs.files THEN fs.files[name].lines ELSE << >>
    IN  {LineTable[lines[k]].arg :
            k \in {j \in 1..Len(lines) : LineTable[lines[j]].kind = "definition"}}

\* The paths of the inclusion directives of activation i that have returned
Included(i) ==
    LET fr == stack[i]
    IN  {_resolve_path(LineTable[Lines(fr)[k]].arg, fr.filepath) :
            k \in {j \in 1..Len(Lines(fr)) :
                      /\ LineTable[Lines(fr)[j]].kind = "source"
                      /\ \/ j < fr.line_num
                         \/ j = fr.line_num /\ fr.resumed /\ i = Len(stack) /\ call = None}}

\* The scan of the file at path p has reached the end of the file
ScanIsOver(p) == p \in scanned

\* The calls a step appends have targets the registry held before the step
TargetsWereKnown ==
    \A k \in 1..Len(last'.calls) : last'.calls[k].function \in all_functions(functions)

\* C13 as stated
C13_IncludedFunctionsKnown ==
    [][/\ TargetsWereKnown
       /\ \A i \in 1..Len(stack) : \A p \in Included(i) :
             DefinedIn(p) \subseteq all_functions(functions)]_vars

\* C13 amended: the functions of the included file are known once its scan
\* has reached the end of the file, which it has not when the directive names
\* a file that is still being scanned further up the chain of inclusions, or
\* one that could not be read
C13_IncludedFunctionsKnownOnceScanned ==
    [][/\ TargetsWereKnown
       /\ \A i \in 1..Len(stack) : \A p \in Included(i) :
             ScanIsOver(p) => DefinedIn(p) \subseteq all_functions(functions)]_vars

\* A line has just yielded an edge to a function that only an included file defines
C13_Witness ==
    /\ Scanned
    /\ \E k \in 1..Len(last.calls) : \E i \in 1..Len(stack) : \E p \in Included(i) :
          /\ stack[i].filepath = last.filepath
          /\ ScanIsOver(p)
          /\ last.calls[k].function \in DefinedIn(p)
          /\ last.calls[k].function \notin DefinedIn(last.filepath)


(***************************************************************************)
(* C14: registry contents only grow during a run: once a FunctionEntry     *)
(* exists for a file and a name it is never deleted, and the sequence of   *)
(* CallEdges recorded for it at any point is a prefix of the sequence      *)
(* recorded for it at every later point, also when the same name is        *)
(* defined again later in the same file.                                   *)
(***************************************************************************)
IsPrefix(q, r) == Len(q) <= Len(r) /\ SubSeq(r, 1, Len(q)) = q

C14_RegistryOnlyGrows ==
    [][\A f \in DOMAIN functions :
         /\ f \in DOMAIN functions'
         /\ \A i \in 1..Len(functions[f]) :
               LET e == functions[f][i]
               IN  /\ HasKey(functions'[f], e.name)
                   /\ IsPrefix(e.calls, functions'[f][KeyIndex(functions'[f], e.name)].calls)]_vars


(***************************************************************************)
(* C15: every line matching the function-definition shape creates a        *)
(* FunctionEntry and resets the conditional state, the brace-omitted forms *)
(* name() and function name() on a line of their own included; such a     *)
(* line never changes the conditional depth or label to a case-branch      *)
(* value.                                                                  *)
(***************************************************************************)
\* What the definition patterns of lines 58-60 find in each line of the corpus
DefinitionShape == [raw \in AllLines |-> func_match(Strip(raw))]

C15_DefinitionShapeDefines ==
    \A i \in 1..Len(stack) :
       LET fr   == stack[i]
           prev == Lines(fr)[fr.line_num - 1]
           d    == functions[fr.filepath]
       IN  (fr.line_num > 1 /\ ~fr.resumed /\ DefinitionShape[prev].found)
           => /\ HasKey(d, DefinitionShape[prev].group)
              /\ d[KeyIndex(d, DefinitionShape[prev].group)].line = fr.line_num - 1
              /\ fr.condition_depth = 0
              /\ fr.current_condition = None


(***************************************************************************)
(* C16: a line that is not an if/elif/else/case/while/for line, not a      *)
(* conditional end, not a definition and not an inclusion directive, and   *)
(* in which a known non-blocklisted function name is the first word inside *)
(* a $(...) command substitution (x=$(foo)), is treated as a plain         *)
(* statement: it yields a CallEdge to that function and leaves the         *)
(* conditional depth and label unchanged.                                  *)
(***************************************************************************)
\* The names that are the first word of a command substitution of the line
\* (call pattern 3), when the line is none of the other categories
SubstitutionCalls ==
    [raw \in AllLines |->
        LET line == Strip(raw)
            cs   == _detect_condition_start(line)
        IN  IF /\ Len(line) > 0
               /\ ~StartsWith(line, "#")
               /\ (cs = None \/ StartsWith(cs, "case_branch: "))
               /\ ~_detect_condition_end(line)
               /\ ~func_match(line).found
               /\ ~source_match(line).found
            THEN {n \in AllNames : re_search(CallPatterns(n)[3], line).found}
            ELSE {}]

C16_SubstitutionIsPlainStatement ==
    [][\A n \in all_functions(functions) \ system_commands :
         (/\ phase = "run"
          /\ call = None
          /\ Len(stack) > 0
          /\ ~Top.resumed
          /\ Top.line_num <= Len(Lines(Top))
          /\ n \in SubstitutionCalls[Lines(Top)[Top.line_num]])
         => /\ Len(stack') = Len(stack)
            /\ stack'[Len(stack)].condition_depth = Top.condition_depth
            /\ stack'[Len(stack)].current_condition = Top.current_condition
            /\ \E k \in 1..Len(last'.calls) : last'.calls[k].function = n]_vars


(***************************************************************************)
(* C17: recursive analysis of an included file leaves the including file's *)
(* scan state untouched: after the inclusion directive returns, the        *)
(* including file's conditional depth, conditional label and active        *)
(* enclosing function are exactly what they were before the directive,     *)
(* whatever the included file (and its own inclusions) contained.          *)
(***************************************************************************)
ScanState(fr) == <<fr.current_function, fr.condition_depth, fr.current_condition>>

\* The loop of the innermost activation is at an inclusion directive
AtDirective ==
    /\ phase = "run"
    /\ call = None
    /\ Len(stack) > 0
    /\ ~Top.resumed
    /\ Top.line_num <= Len(Lines(Top))
    /\ LineTable[Lines(Top)[Top.line_num]].kind = "source"

\* Neither the directive nor any step taken while the recursive call runs
\* changes the scan state of an activation that waits for it
C17_IncluderStateUntouched ==
    [][/\ AtDirective =>
            /\ Len(stack') = Len(stack)
            /\ ScanState(stack'[Len(stack)]) = ScanState(Top)
       /\ \A i \in 1..Len(stack) :
            (stack[i].resumed /\ i <= Len(stack') /\ (i < Len(stack) \/ call # None))
            => /\ ScanState(stack'[i]) = ScanState(stack[i])
               /\ stack'[i].line_num = stack[i].line_num]_vars

\* The directive of a file scanned inside a function and a conditional has
\* returned from a file that holds a definition and conditionals of its own
C17_Witness ==
    /\ Len(stack) > 0
    /\ Top.resumed
    /\ call = None
    /\ Top.current_function # None
    /\ Top.condition_depth > 0
    /\ \E p \in Included(Len(stack)) :
          /\ ScanIsOver(p)
          /\ DefinedIn(p) # {}
          /\ \E k \in 1..Len(fs.files[Resolve(fs.files, p)].lines) :
                LineTable[fs.files[Resolve(fs.files, p)].lines[k]].kind = "condition_start"


(***************************************************************************)
(* C18: in every reachable registry state the global-scope pseudo-entry is *)
(* never a call target and never a real definition: no call edge has the   *)
(* global sentinel name as its target, every call edge target is the name  *)
(* of a function created by a definition line of some analyzed file, and   *)
(* every entry stored under the sentinel name has definition line 0 and an *)
(* empty argument list.                                                    *)
(***************************************************************************)
\* The names the definition lines of the analyzed files create
DefinedByALine ==
    {n \in AllNames :
        \E p \in analyzed_files :
            /\ Resolve(fs.files, p) # Missing
            /\ \E k \in 1..Len(fs.files[Resolve(fs.files, p)].lines) :
                  LET info == LineTable[fs.files[Resolve(fs.files, p)].lines[k]]
                  IN  info.kind = "definition" /\ info.arg = n}

C18_SentinelNeverTargetNorDefinition ==
    \A p \in DOMAIN functions :
        \A i \in 1..Len(functions[p]) :
            LET e == functions[p][i]
            IN  /\ e.name = GLOBAL => (e.line = 0 /\ e.args = << >>)
                /\ \A j \in 1..Len(e.calls) :
                      /\ e.calls[j].function # GLOBAL
                      /\ e.calls[j].function \in DefinedByALine


(***************************************************************************)
(* C19: the defensive guard of the call detector is unreachable: at every  *)
(* invocation of _find_function_calls during a traversal the enclosing     *)
(* function name is either the global sentinel or a key of the current     *)
(* file's registry, so no detected call is ever dropped for lack of an     *)
(* enclosing entry.                                                        *)
(***************************************************************************)
\* The innermost activation is about to run line 84
AtInvocation ==
    /\ phase = "run"
    /\ call = None
    /\ Len(stack) > 0
    /\ Top.line_num <= Len(Lines(Top))
    /\ (Top.resumed \/ LineTable[Lines(Top)[Top.line_num]].kind = "statement")

\* The names line 169 iterates over that lines 170-182 find in the line
Detected ==
    {n \in all_functions(functions) :
        ~IsSystemCommand(n) /\ CallTable[Lines(Top)[Top.line_num]][n].found}

C19_GuardUnreachable ==
    [][AtInvocation =>
         /\ \/ Top.current_function = None
            \/ Top.current_function = GLOBAL
            \/ /\ Top.filepath \in DOMAIN functions
               /\ HasKey(functions[Top.filepath], Top.current_function)
         /\ {last'.calls[j].function : j \in 1..Len(last'.calls)} = Detected
         /\ Len(last'.calls) = Cardinality(Detected)]_vars

\* A call was detected on a line inside a function and stored in its entry
C19_Witness ==
    /\ Len(stack) > 0
    /\ Top.current_function \notin {None, GLOBAL}
    /\ last.filepath = Top.filepath
    /\ last.line_num = Top.line_num - 1
    /\ last.calls # << >>
    /\ HasKey(functions[Top.filepath], Top.current_function)
    /\ functions[Top.filepath][KeyIndex(functions[Top.filepath], Top.current_function)].calls # << >>

=============================================================================
